---- MODULE Spec2Model ----
(***************************************************************************)
(* privx-cli: the `trusted-clients` and `roles` command groups.            *)
(*                                                                         *)
(* One behaviour is one invocation of the command-line client: the flags   *)
(* are bound to the options struct of the chosen sub-command, its RunE     *)
(* handler runs, and every call to the remote service is appended to       *)
(* `calls` together with the answer the service gave.                      *)
(*                                                                         *)
(* Strings that the code inspects (the --type token, the comma-separated   *)
(* --id list) are sequences of one-character strings; strings it only      *)
(* passes on (client ids, file names, session ids) are atoms.              *)
(***************************************************************************)
EXTENDS Integers, Sequences, FiniteSets, TLC

\* ------------------------------------------------------------------ bounds
\* longest trusted-client collection the service answers with
MaxClients == 3
\* longest --id string of `roles delete` / `roles members`
MaxIdLen == 4
\* longest member list the service answers with for one role
MaxMembers == 2

\* ----------------------------------------------------------------- strings
lowerCase == <<"a","b","c","d","e","f","g","h","i","j","k","l","m",
               "n","o","p","q","r","s","t","u","v","w","x","y","z">>
upperCase == <<"A","B","C","D","E","F","G","H","I","J","K","L","M",
               "N","O","P","Q","R","S","T","U","V","W","X","Y","Z">>

\* strings.ToUpper on one character: a lower-case letter maps to its
\* upper-case form, anything else is left alone
ToUpperChar(c) ==
    IF \E i \in 1..Len(lowerCase) : lowerCase[i] = c
    THEN upperCase[CHOOSE i \in 1..Len(lowerCase) : lowerCase[i] = c]
    ELSE c

\* strings.ToUpper
ToUpper(s) == [i \in 1..Len(s) |-> ToUpperChar(s[i])]

\* the --type tokens the commands switch on
extender == <<"e","x","t","e","n","d","e","r">>
webproxy == <<"w","e","b","p","r","o","x","y">>
carrier  == <<"c","a","r","r","i","e","r">>

\* values of userstore.ClientType the service reports
EXTENDER == <<"E","X","T","E","N","D","E","R">>
ICAP     == <<"I","C","A","P">>
CARRIER  == <<"C","A","R","R","I","E","R">>
WEBPROXY == <<"W","E","B","P","R","O","X","Y">>

\* what a user may type after --type
TypeTokens ==
    { extender, webproxy, carrier,
      <<"E","x","t","e","n","d","e","r">>,
      WEBPROXY,
      <<"i","c","a","p">>,
      <<>> }

\* strings.Split(s, ","): the pieces between the commas; a string without a
\* comma (the empty string included) is one piece
RECURSIVE SplitFrom(_, _, _)
SplitFrom(s, i, cur) ==
    IF i > Len(s) THEN <<cur>>
    ELSE IF s[i] = "," THEN <<cur>> \o SplitFrom(s, i + 1, <<>>)
    ELSE SplitFrom(s, i + 1, Append(cur, s[i]))

Split(s) == SplitFrom(s, 1, <<>>)

\* ------------------------------------------------------------ input domains
SeqsUpTo(S, n) == UNION { [1..k -> S] : k \in 0..n }

ClientIDs   == {"c1", "c2"}
FileNames   == {"f1"}
GroupIDs    == {"g1"}
SessionIDs  == {"s1", "s2"}
ErrorCodes  == {"notfound", "forbidden"}
Users       == {"u1", "u2"}
IdChars     == {"a", "b", ","}

ClientTypes == {EXTENDER, ICAP, CARRIER, WEBPROXY}

\* userstore.TrustedClient, reduced to the fields the CLI reads or prints
TrustedClient == [ID : {1, 2}, Type : ClientTypes]

ClientLists == SeqsUpTo(TrustedClient, MaxClients)
RoleIDLists == SeqsUpTo(IdChars, MaxIdLen)
\* a role lists each of its members once
MemberLists ==
    { m \in SeqsUpTo(Users, MaxMembers) :
        \A i, j \in 1..Len(m) : m[i] = m[j] => i = j }

\* ------------------------------------------------------------------ errors
Nil == [kind |-> "nil", op |-> "", code |-> "", token |-> <<>>]

\* the error a failed call `op` of the remote client returns
RemoteError(op, code) ==
    [kind |-> "remote", op |-> op, code |-> code, token |-> <<>>]

\* fmt.Errorf("client type does not exist: %s", clientType)
DispatchError(clientType) ==
    [kind |-> "dispatch", op |-> "", code |-> "client type does not exist",
     token |-> clientType]

\* cobra's answer to a required flag that was not given
RequiredFlagError ==
    [kind |-> "flag", op |-> "", code |-> "required flag not set", token |-> <<>>]

\* ------------------------------------------------------------------- state
VARIABLES
    pc,             \* position of the invocation
    cmd,            \* the sub-command invoked
    argv,           \* the flags as the user gave them
    options,        \* trustedClientOptions of the sub-command
    roleOpts,       \* roleOptions of the sub-command
    calls,          \* remote calls made so far, with their answers
    handler,        \* the download handle of step 1 of pre-config
    idx,            \* how many pieces of --id the loop has processed
    members,        \* roleMemberList's accumulator
    ret,            \* what the last helper returned to RunE
    result,         \* what RunE returned (the process exit)
    out             \* what was printed to standard output

vars == <<pc, cmd, argv, options, roleOpts, calls, handler, idx, members,
          ret, result, out>>

Commands ==
    {"list", "show", "list-ca", "show-ca", "show-crl", "pre-config",
     "roles delete", "roles members"}

\* a flag the user did not give
NotSet(default) == [set |-> FALSE, val |-> default]
Given(v) == [set |-> TRUE, val |-> v]

Flag(S, default) == {NotSet(default)} \cup {Given(v) : v \in S}

NoFlags ==
    [type     |-> NotSet(<<>>), clientId |-> NotSet(""), name |-> NotSet(""),
     groupId  |-> NotSet(""),   id       |-> NotSet(<<>>)]

\* trustedClientOptions{} and roleOptions{} as the constructors leave them
EmptyOptions ==
    [accessGroupID |-> "", extenderID |-> "", fileName |-> "",
     clientType |-> <<>>, trustedClientID |-> ""]

EmptyRoleOptions == [roleID |-> <<>>]

Init ==
    /\ pc = "start"
    /\ cmd = ""
    /\ argv = NoFlags
    /\ options = EmptyOptions
    /\ roleOpts = EmptyRoleOptions
    /\ calls = <<>>
    /\ handler = [SessionID |-> ""]
    /\ idx = 0
    /\ members = <<>>
    /\ ret = Nil
    /\ result = Nil
    /\ out = <<>>

\* ---------------------------------------------------------- remote service
\* an answer of the remote client: a value, or a categorized failure
Ok(v) == [ok |-> TRUE, err |-> Nil, val |-> v]
Fail(op, code, zero) == [ok |-> FALSE, err |-> RemoteError(op, code), val |-> zero]

\* every answer the service can give to `op` when its successful answers
\* are drawn from Vals; a failure comes with the zero value of the type
Responses(op, Vals, zero) ==
    {Ok(v) : v \in Vals} \cup {Fail(op, c, zero) : c \in ErrorCodes}

Call(op, args, resp) == [op |-> op, args |-> args, resp |-> resp]

\* -------------------------------------------------------------- flag wiring
\* the flags each sub-command defines
FlagsOf(c) ==
    CASE c = "list"          -> {"type"}
      [] c = "show"          -> {"clientId"}
      [] c = "list-ca"       -> {"type", "groupId"}
      [] c = "show-ca"       -> {"clientId", "type"}
      [] c = "show-crl"      -> {"clientId", "name", "type"}
      [] c = "pre-config"    -> {"clientId", "type", "name"}
      [] c = "roles delete"  -> {"id"}
      [] c = "roles members" -> {"id"}

\* the flags each sub-command marks required
RequiredFlags(c) ==
    CASE c = "list-ca" -> {"type"}
      [] OTHER         -> FlagsOf(c)

\* the command lines a user can type for sub-command c
CommandLines(c) ==
    { a \in [type     : Flag(TypeTokens, <<>>),
             clientId : Flag(ClientIDs, ""),
             name     : Flag(FileNames, ""),
             groupId  : Flag(GroupIDs, ""),
             id       : Flag(RoleIDLists, <<>>)] :
        \A f \in DOMAIN a : a[f].set => f \in FlagsOf(c) }

\* the trustedClientOptions struct after flag parsing: each StringVar call
\* names the field its flag is stored in
BindOptions(c, a) ==
    CASE c = "list" ->
            [EmptyOptions EXCEPT !.clientType = a.type.val]
      [] c = "show" ->
            [EmptyOptions EXCEPT !.trustedClientID = a.clientId.val]
      [] c = "list-ca" ->
            [EmptyOptions EXCEPT !.clientType = a.type.val,
                                 !.accessGroupID = a.groupId.val]
      [] c = "show-ca" ->
            [EmptyOptions EXCEPT !.extenderID = a.clientId.val,
                                 !.clientType = a.type.val]
      [] c = "show-crl" ->
            [EmptyOptions EXCEPT !.extenderID = a.clientId.val,
                                 !.fileName = a.name.val,
                                 !.clientType = a.type.val]
      [] c = "pre-config" ->
            [EmptyOptions EXCEPT !.trustedClientID = a.clientId.val,
                                 !.clientType = a.type.val,
                                 !.fileName = a.name.val]
      [] OTHER -> EmptyOptions

\* the roleOptions struct after flag parsing
BindRoleOptions(c, a) ==
    IF c \in {"roles delete", "roles members"}
    THEN [EmptyRoleOptions EXCEPT !.roleID = a.id.val]
    ELSE EmptyRoleOptions

\* the function the sub-command's RunE enters
EntryPoint(c) ==
    CASE c = "list"          -> "trustedClientList"
      [] c = "show"          -> "trustedClientShow"
      [] c = "list-ca"       -> "caListCmd"
      [] c = "show-ca"       -> "caShowCmd"
      [] c = "show-crl"      -> "revocationListCmd"
      [] c = "pre-config"    -> "preconfigurationDownloadSwitch"
      [] c = "roles delete"  -> "roleDelete"
      [] c = "roles members" -> "roleMemberList"

\* the user runs a sub-command with every required flag given: the flags
\* are stored in the options struct and RunE is entered
Execute ==
    /\ pc = "start"
    /\ \E c \in Commands : \E a \in CommandLines(c) :
        /\ \A f \in RequiredFlags(c) : a[f].set
        /\ cmd' = c
        /\ argv' = a
        /\ options' = BindOptions(c, a)
        /\ roleOpts' = BindRoleOptions(c, a)
        /\ pc' = EntryPoint(c)
    /\ UNCHANGED <<calls, handler, idx, members, ret, result, out>>

\* the user leaves out a required flag: the command fails before RunE
RequiredFlagMissing ==
    /\ pc = "start"
    /\ \E c \in Commands : \E a \in CommandLines(c) :
        /\ \E f \in RequiredFlags(c) : ~a[f].set
        /\ cmd' = c
        /\ argv' = a
        /\ options' = BindOptions(c, a)
        /\ roleOpts' = BindRoleOptions(c, a)
    /\ result' = RequiredFlagError
    /\ pc' = "done"
    /\ UNCHANGED <<calls, handler, idx, members, ret, out>>

\* ------------------------------------------------- trusted-clients list/show
\* trustedClientOptions.normalizeClientType
normalizeClientType(m) == ToUpper(m.clientType)

\* the loop of trustedClientListHelper from element i on, `clients` being
\* what it has appended so far
RECURSIVE trustedClientListHelperLoop(_, _, _, _)
trustedClientListHelperLoop(trustedClients, clientType, i, clients) ==
    IF i > Len(trustedClients) THEN clients
    ELSE trustedClientListHelperLoop(
            trustedClients, clientType, i + 1,
            IF trustedClients[i].Type = clientType
            THEN Append(clients, trustedClients[i])
            ELSE clients)

\* trustedClientListHelper with the match put in front of the matches so far
RECURSIVE trustedClientListHelperPrepend(_, _)
trustedClientListHelperPrepend(trustedClients, clientType) ==
    IF trustedClients = <<>> THEN <<>>
    ELSE LET rest == trustedClientListHelperPrepend(Tail(trustedClients), clientType)
         IN  IF Head(trustedClients).Type = clientType
             THEN rest \o <<Head(trustedClients)>>
             ELSE rest

\* trustedClientListHelper with the loop entered at the second element
trustedClientListHelperSkipFirst(trustedClients, clientType) ==
    trustedClientListHelperLoop(trustedClients, clientType, 2, <<>>)

\* trustedClientListHelper: the clients of the given type, appended in the
\* order they are met
trustedClientListHelper(trustedClients, clientType) ==
    trustedClientListHelperLoop(trustedClients, clientType, 1, <<>>)

\* trustedClientList: fetch every trusted client, then switch on --type
trustedClientList ==
    /\ pc = "trustedClientList"
    /\ \E resp \in Responses("TrustedClients", ClientLists, <<>>) :
        /\ calls' = Append(calls, Call("TrustedClients", <<>>, resp))
        /\ IF ~resp.ok
           THEN /\ result' = resp.err
                /\ out' = out
           ELSE LET res == resp.val IN
                CASE options.clientType = extender ->
                        /\ out' = Append(out,
                              trustedClientListHelper(res, normalizeClientType(options)))
                        /\ result' = Nil
                  [] options.clientType = webproxy ->
                        /\ out' = Append(out, trustedClientListHelper(res, ICAP))
                        /\ result' = Nil
                  [] options.clientType = carrier ->
                        /\ out' = Append(out,
                              trustedClientListHelper(res, normalizeClientType(options)))
                        /\ result' = Nil
                  [] OTHER ->
                        /\ result' = DispatchError(options.clientType)
                        /\ out' = out
    /\ pc' = "done"
    /\ UNCHANGED <<cmd, argv, options, roleOpts, handler, idx, members, ret>>

\* trustedClientShow
trustedClientShow ==
    /\ pc = "trustedClientShow"
    /\ \E resp \in Responses("TrustedClient", TrustedClient, [ID |-> 0, Type |-> <<>>]) :
        /\ calls' = Append(calls,
              Call("TrustedClient", <<options.trustedClientID>>, resp))
        /\ result' = resp.err
        /\ out' = IF resp.ok THEN Append(out, resp.val) ELSE out
    /\ pc' = "done"
    /\ UNCHANGED <<cmd, argv, options, roleOpts, handler, idx, members, ret>>

\* ------------------------------------------------ list-ca, show-ca, show-crl
\* the switch of a RunE closure over --type with an extender and a webproxy
\* branch: the helper it enters, or the error it returns
TwoWaySwitch(onExtender, onWebproxy) ==
    CASE options.clientType = extender ->
            /\ pc' = onExtender
            /\ result' = result
      [] options.clientType = webproxy ->
            /\ pc' = onWebproxy
            /\ result' = result
      [] OTHER ->
            /\ pc' = "done"
            /\ result' = DispatchError(options.clientType)

\* a helper that makes one remote call, prints its value when there is one
\* to print, and returns the call's error to the RunE closure
OneCallHelper(op, args, Vals, prints, returnTo) ==
    \E resp \in Responses(op, Vals, "") :
        /\ calls' = Append(calls, Call(op, args, resp))
        /\ ret' = resp.err
        /\ out' = IF resp.ok /\ prints THEN Append(out, resp.val) ELSE out
        /\ pc' = returnTo

\* the `return nil` that ends a RunE closure after its switch
ReturnNil ==
    /\ result' = Nil
    /\ pc' = "done"
    /\ UNCHANGED <<cmd, argv, options, roleOpts, calls, handler, idx, members,
                   ret, out>>

\* caListCmd's RunE: the switch
caListCmd ==
    /\ pc = "caListCmd"
    /\ TwoWaySwitch("extenderCAList", "webproxyCAList")
    /\ UNCHANGED <<cmd, argv, options, roleOpts, calls, handler, idx, members,
                   ret, out>>

extenderCAList ==
    /\ pc = "extenderCAList"
    /\ OneCallHelper("ExtenderCACertificates", <<options.accessGroupID>>,
                     {"certificates"}, TRUE, "caListCmd return")
    /\ UNCHANGED <<cmd, argv, options, roleOpts, handler, idx, members, result>>

webproxyCAList ==
    /\ pc = "webproxyCAList"
    /\ OneCallHelper("WebProxyCACertificates", <<options.accessGroupID>>,
                     {"certificates"}, TRUE, "caListCmd return")
    /\ UNCHANGED <<cmd, argv, options, roleOpts, handler, idx, members, result>>

caListCmdReturn ==
    /\ pc = "caListCmd return"
    /\ ReturnNil

\* caShowCmd's RunE: the switch
caShowCmd ==
    /\ pc = "caShowCmd"
    /\ TwoWaySwitch("extenderCAShow", "webproxyCAShow")
    /\ UNCHANGED <<cmd, argv, options, roleOpts, calls, handler, idx, members,
                   ret, out>>

extenderCAShow ==
    /\ pc = "extenderCAShow"
    /\ OneCallHelper("ExtenderCACertificate", <<options.trustedClientID>>,
                     {"certificate"}, TRUE, "caShowCmd return")
    /\ UNCHANGED <<cmd, argv, options, roleOpts, handler, idx, members, result>>

webproxyCAShow ==
    /\ pc = "webproxyCAShow"
    /\ OneCallHelper("WebProxyCACertificate", <<options.trustedClientID>>,
                     {"certificate"}, TRUE, "caShowCmd return")
    /\ UNCHANGED <<cmd, argv, options, roleOpts, handler, idx, members, result>>

caShowCmdReturn ==
    /\ pc = "caShowCmd return"
    /\ ReturnNil

\* revocationListCmd's RunE: the switch
revocationListCmd ==
    /\ pc = "revocationListCmd"
    /\ TwoWaySwitch("extenderRevocationList", "webproxyRevocationList")
    /\ UNCHANGED <<cmd, argv, options, roleOpts, calls, handler, idx, members,
                   ret, out>>

extenderRevocationList ==
    /\ pc = "extenderRevocationList"
    /\ OneCallHelper("DownloadExtenderCertificateCRL",
                     <<options.fileName, options.trustedClientID>>,
                     {"written"}, FALSE, "revocationListCmd return")
    /\ UNCHANGED <<cmd, argv, options, roleOpts, handler, idx, members, result>>

webproxyRevocationList ==
    /\ pc = "webproxyRevocationList"
    /\ OneCallHelper("DownloadWebProxyCertificateCRL",
                     <<options.fileName, options.trustedClientID>>,
                     {"written"}, FALSE, "revocationListCmd return")
    /\ UNCHANGED <<cmd, argv, options, roleOpts, handler, idx, members, result>>

revocationListCmdReturn ==
    /\ pc = "revocationListCmd return"
    /\ ReturnNil

\* ---------------------------------------------------------------- pre-config
\* preconfigurationDownloadSwitch: the switch
preconfigurationDownloadSwitch ==
    /\ pc = "preconfigurationDownloadSwitch"
    /\ CASE options.clientType = extender ->
                /\ pc' = "downloadExtenderPreConf"
                /\ result' = result
         [] options.clientType = webproxy ->
                /\ pc' = "downloadWebProxyPreConf"
                /\ result' = result
         [] options.clientType = carrier ->
                /\ pc' = "downloadCarrierPreConf"
                /\ result' = result
         [] OTHER ->
                /\ pc' = "done"
                /\ result' = DispatchError(options.clientType)
    /\ UNCHANGED <<cmd, argv, options, roleOpts, calls, handler, idx, members,
                   ret, out>>

\* the handles the service can issue
Handles == [SessionID : SessionIDs]

\* step 1 of a download helper: ask for the download handle; on failure the
\* helper returns the error, otherwise it goes on to step 2
DownloadHandle(op, clientID, step2) ==
    \E resp \in Responses(op, Handles, [SessionID |-> ""]) :
        /\ calls' = Append(calls, Call(op, <<clientID>>, resp))
        /\ IF resp.ok
           THEN /\ handler' = resp.val
                /\ ret' = ret
                /\ pc' = step2
           ELSE /\ handler' = handler
                /\ ret' = resp.err
                /\ pc' = "preconfigurationDownloadSwitch return"

\* step 2 of a download helper: download by session id; the helper returns
\* the call's error or nil
DownloadConfig(op, clientID, sessionID, fileName) ==
    \E resp \in Responses(op, {"written"}, "") :
        /\ calls' = Append(calls, Call(op, <<clientID, sessionID, fileName>>, resp))
        /\ ret' = resp.err
        /\ pc' = "preconfigurationDownloadSwitch return"

downloadExtenderPreConf ==
    /\ pc = "downloadExtenderPreConf"
    /\ DownloadHandle("ExtenderConfigDownloadHandle", options.trustedClientID,
                      "DownloadExtenderConfig")
    /\ UNCHANGED <<cmd, argv, options, roleOpts, idx, members, result, out>>

\* step 2 of downloadExtenderPreConf with the client id read from the
\* extenderID field
downloadExtenderPreConfStep2WrongField ==
    /\ pc = "DownloadExtenderConfig"
    /\ DownloadConfig("DownloadExtenderConfig", options.extenderID,
                      handler.SessionID, options.fileName)
    /\ UNCHANGED <<cmd, argv, options, roleOpts, handler, idx, members, result, out>>

downloadExtenderPreConfStep2 ==
    /\ pc = "DownloadExtenderConfig"
    /\ DownloadConfig("DownloadExtenderConfig", options.trustedClientID,
                      handler.SessionID, options.fileName)
    /\ UNCHANGED <<cmd, argv, options, roleOpts, handler, idx, members, result, out>>

downloadWebProxyPreConf ==
    /\ pc = "downloadWebProxyPreConf"
    /\ DownloadHandle("WebProxySessionDownloadHandle", options.trustedClientID,
                      "DownloadWebProxyConfig")
    /\ UNCHANGED <<cmd, argv, options, roleOpts, idx, members, result, out>>

downloadWebProxyPreConfStep2 ==
    /\ pc = "DownloadWebProxyConfig"
    /\ DownloadConfig("DownloadWebProxyConfig", options.trustedClientID,
                      handler.SessionID, options.fileName)
    /\ UNCHANGED <<cmd, argv, options, roleOpts, handler, idx, members, result, out>>

downloadCarrierPreConf ==
    /\ pc = "downloadCarrierPreConf"
    /\ DownloadHandle("CarrierConfigDownloadHandle", options.trustedClientID,
                      "DownloadCarrierConfig")
    /\ UNCHANGED <<cmd, argv, options, roleOpts, idx, members, result, out>>

downloadCarrierPreConfStep2 ==
    /\ pc = "DownloadCarrierConfig"
    /\ DownloadConfig("DownloadCarrierConfig", options.trustedClientID,
                      handler.SessionID, options.fileName)
    /\ UNCHANGED <<cmd, argv, options, roleOpts, handler, idx, members, result, out>>

preconfigurationDownloadSwitchReturn ==
    /\ pc = "preconfigurationDownloadSwitch return"
    /\ ReturnNil

\* -------------------------------------------------------------------- roles
\* one pass of roleDelete's loop with the error of DeleteRole ignored
roleDeleteKeepGoing ==
    /\ pc = "roleDelete"
    /\ LET pieces == Split(roleOpts.roleID) IN
       IF idx >= Len(pieces)
       THEN /\ result' = Nil
            /\ pc' = "done"
            /\ UNCHANGED <<calls, idx, out>>
       ELSE LET id == pieces[idx + 1] IN
            \E resp \in Responses("DeleteRole", {"deleted"}, "") :
                /\ calls' = Append(calls, Call("DeleteRole", <<id>>, resp))
                /\ out' = IF resp.ok THEN Append(out, id) ELSE out
                /\ idx' = idx + 1
                /\ pc' = pc
                /\ result' = result
    /\ UNCHANGED <<cmd, argv, options, roleOpts, handler, members, ret>>

\* roleDelete: one pass of the loop over strings.Split(options.roleID, ","),
\* or the return after the last piece
roleDelete ==
    /\ pc = "roleDelete"
    /\ LET pieces == Split(roleOpts.roleID) IN
       IF idx >= Len(pieces)
       THEN /\ result' = Nil
            /\ pc' = "done"
            /\ UNCHANGED <<calls, idx, out>>
       ELSE LET id == pieces[idx + 1] IN
            \E resp \in Responses("DeleteRole", {"deleted"}, "") :
                /\ calls' = Append(calls, Call("DeleteRole", <<id>>, resp))
                /\ IF resp.ok
                   THEN /\ out' = Append(out, id)
                        /\ idx' = idx + 1
                        /\ pc' = pc
                        /\ result' = result
                   ELSE /\ result' = resp.err
                        /\ pc' = "done"
                        /\ UNCHANGED <<idx, out>>
    /\ UNCHANGED <<cmd, argv, options, roleOpts, handler, members, ret>>

\* one pass of roleMemberList's loop with the new members put in front
roleMemberListPrepend ==
    /\ pc = "roleMemberList"
    /\ LET pieces == Split(roleOpts.roleID) IN
       IF idx >= Len(pieces)
       THEN /\ out' = Append(out, members)
            /\ result' = Nil
            /\ pc' = "done"
            /\ UNCHANGED <<calls, idx, members>>
       ELSE LET role == pieces[idx + 1] IN
            \E resp \in Responses("GetRoleMembers", MemberLists, <<>>) :
                /\ calls' = Append(calls, Call("GetRoleMembers", <<role>>, resp))
                /\ IF resp.ok
                   THEN /\ members' = resp.val \o members
                        /\ idx' = idx + 1
                        /\ pc' = pc
                        /\ result' = result
                   ELSE /\ result' = resp.err
                        /\ pc' = "done"
                        /\ UNCHANGED <<idx, members>>
                /\ out' = out
    /\ UNCHANGED <<cmd, argv, options, roleOpts, handler, ret>>

\* roleMemberList: one pass of the loop over strings.Split(options.roleID,
\* ","), or the output of the accumulated members after the last piece
roleMemberList ==
    /\ pc = "roleMemberList"
    /\ LET pieces == Split(roleOpts.roleID) IN
       IF idx >= Len(pieces)
       THEN /\ out' = Append(out, members)
            /\ result' = Nil
            /\ pc' = "done"
            /\ UNCHANGED <<calls, idx, members>>
       ELSE LET role == pieces[idx + 1] IN
            \E resp \in Responses("GetRoleMembers", MemberLists, <<>>) :
                /\ calls' = Append(calls, Call("GetRoleMembers", <<role>>, resp))
                /\ IF resp.ok
                   THEN /\ members' = members \o resp.val
                        /\ idx' = idx + 1
                        /\ pc' = pc
                        /\ result' = result
                   ELSE /\ result' = resp.err
                        /\ pc' = "done"
                        /\ UNCHANGED <<idx, members>>
                /\ out' = out
    /\ UNCHANGED <<cmd, argv, options, roleOpts, handler, ret>>

\* ------------------------------------------------------------ specification
Next ==
    \/ Execute
    \/ RequiredFlagMissing
    \/ trustedClientList
    \/ trustedClientShow
    \/ caListCmd
    \/ extenderCAList
    \/ webproxyCAList
    \/ caListCmdReturn
    \/ caShowCmd
    \/ extenderCAShow
    \/ webproxyCAShow
    \/ caShowCmdReturn
    \/ revocationListCmd
    \/ extenderRevocationList
    \/ webproxyRevocationList
    \/ revocationListCmdReturn
    \/ preconfigurationDownloadSwitch
    \/ downloadExtenderPreConf
    \/ downloadExtenderPreConfStep2
    \/ downloadWebProxyPreConf
    \/ downloadWebProxyPreConfStep2
    \/ downloadCarrierPreConf
    \/ downloadCarrierPreConfStep2
    \/ preconfigurationDownloadSwitchReturn
    \/ roleDelete
    \/ roleMemberList

Spec == Init /\ [][Next]_vars

\* ------------------------------------------------------------------ claims
Done == pc = "done"

\* the sub-commands that switch on --type, and the tokens each recognizes
TypeDispatching == {"list", "list-ca", "show-ca", "show-crl", "pre-config"}

RecognizedTypes(c) ==
    IF c \in {"list", "pre-config"}
    THEN {extender, webproxy, carrier}
    ELSE {extender, webproxy}

\* the category a recognized token stands for
Category(token) ==
    CASE token = extender -> EXTENDER
      [] token = webproxy -> ICAP
      [] token = carrier  -> CARRIER

\* the subsequence of L whose Type is category
OfType(L, category) ==
    LET Matches(client) == client.Type = category
    IN  SelectSeq(L, Matches)

\* a `list` run that got the collection and printed a selection of it
ListPrinted ==
    /\ cmd = "list"
    /\ Done
    /\ result = Nil
    /\ Len(calls) = 1
    /\ calls[1].resp.ok

\* C1: a type-dispatching command given a --type token outside its
\* recognized set fails with an error, and no remote call is made at any
\* point of the run.
C1_UnrecognizedTypeFailsBeforeAnyCall ==
    (/\ cmd \in TypeDispatching
     /\ argv.type.set
     /\ argv.type.val \notin RecognizedTypes(cmd))
    => /\ calls = <<>>
       /\ Done => result # Nil

\* C2: pre-config whose handle call succeeded and whose download call failed
\* returns the download call's error.
C2_Step2ErrorIsReturned ==
    (/\ cmd = "pre-config"
     /\ Done
     /\ Len(calls) = 2
     /\ calls[1].resp.ok
     /\ ~calls[2].resp.ok)
    => result = calls[2].resp.err

\* C3: list-ca, show-ca and show-crl with a recognized --type return the
\* error of their remote call when that call fails.
C3_RemoteFailureIsReturned ==
    (/\ cmd \in {"list-ca", "show-ca", "show-crl"}
     /\ Done
     /\ options.clientType \in {extender, webproxy}
     /\ Len(calls) = 1
     /\ ~calls[1].resp.ok)
    => result = calls[1].resp.err

\* C4: `roles delete` and `roles members` take the pieces of --id left to
\* right, one remote call each, and stop at the first failure: the k-th call
\* is for the k-th piece, every call before the last succeeded, a failed
\* last call ends the command with that call's error, and `roles delete`
\* has printed exactly the pieces whose deletion succeeded.
C4_BatchStopsAtFirstFailure ==
    (cmd \in {"roles delete", "roles members"} /\ argv.id.set)
    => LET pieces == Split(argv.id.val)
           n == Len(calls)
       IN  /\ n <= Len(pieces)
           /\ \A k \in 1..n :
                /\ calls[k].op =
                      (IF cmd = "roles delete" THEN "DeleteRole" ELSE "GetRoleMembers")
                /\ calls[k].args = <<pieces[k]>>
           /\ \A k \in 1..(n - 1) : calls[k].resp.ok
           /\ (n > 0 /\ ~calls[n].resp.ok)
                => /\ Done
                   /\ result = calls[n].resp.err
                   /\ cmd = "roles delete" => out = SubSeq(pieces, 1, n - 1)
           /\ (n > 0 /\ calls[n].resp.ok /\ cmd = "roles delete")
                => out = SubSeq(pieces, 1, n)
           /\ (Done /\ result = Nil) => n = Len(pieces)

\* a delete over three pieces, the first two of them distinct role ids,
\* whose second piece failed: the first is deleted and printed, the third
\* was never sent
C4_Witness ==
    /\ cmd = "roles delete"
    /\ Done
    /\ Len(Split(argv.id.val)) = 3
    /\ Len(calls) = 2
    /\ calls[1].resp.ok
    /\ ~calls[2].resp.ok
    /\ result = calls[2].resp.err
    /\ out = <<Split(argv.id.val)[1]>>
    /\ out[1] # <<>>
    /\ calls[2].args[1] \notin {<<>>, out[1]}

\* C5: `list` prints exactly the subsequence of the fetched collection whose
\* Type is the category of the requested token, in the collection's order,
\* and prints the empty sequence with success when nothing matches.
C5_FilterIsExactSubsequence ==
    ListPrinted
    => out = << OfType(calls[1].resp.val, Category(argv.type.val)) >>

\* a collection of three with a non-matching client between two matches
C5_Witness ==
    /\ ListPrinted
    /\ Len(calls[1].resp.val) = 3
    /\ Len(out[1]) = 2
    /\ calls[1].resp.val[2].Type # Category(argv.type.val)
    /\ out[1][1] # out[1][2]

\* C6: in `list`, webproxy selects Type ICAP, extender selects EXTENDER,
\* carrier selects CARRIER, and any other token yields the dispatch failure
\* and selects nothing.
C6_TokensSelectCategoryOrDispatchFailure ==
    (cmd = "list" /\ Done /\ argv.type.set)
    => IF argv.type.val \in {extender, webproxy, carrier}
       THEN result = Nil
              => out = << OfType(calls[1].resp.val, Category(argv.type.val)) >>
       ELSE /\ result = DispatchError(argv.type.val)
            /\ out = <<>>

\* the member lists the calls answered with, one after the other
RECURSIVE Answers(_)
Answers(cs) ==
    IF cs = <<>> THEN <<>> ELSE Head(cs).resp.val \o Answers(Tail(cs))

\* C7: `roles members` whose lookups all succeed prints the concatenation of
\* the roles' member lists, in the order the role ids were given, each list
\* in its own order, and removes no duplicate.
C7_MembersAreConcatenated ==
    (cmd = "roles members" /\ Done /\ result = Nil /\ argv.id.set)
    => /\ Len(calls) = Len(Split(argv.id.val))
       /\ \A k \in 1..Len(calls) :
            /\ calls[k].resp.ok
            /\ calls[k].args = <<Split(argv.id.val)[k]>>
       /\ out = << Answers(calls) >>

\* two roles that share a user: the user is printed twice
C7_Witness ==
    /\ cmd = "roles members"
    /\ Done
    /\ result = Nil
    /\ Len(calls) = 2
    /\ calls[1].args # calls[2].args
    /\ calls[1].resp.val = <<"u2", "u1">>
    /\ calls[2].resp.val = <<"u1">>
    /\ out = << <<"u2", "u1", "u1">> >>

\* C8: filtering the printed selection again by the same category gives the
\* same selection.
C8_FilterIsIdempotent ==
    ListPrinted
    => trustedClientListHelper(out[1], Category(argv.type.val)) = out[1]

\* a selection that kept some clients and dropped others
C8_Witness ==
    /\ ListPrinted
    /\ out[1] # <<>>
    /\ out[1] # calls[1].resp.val

\* the remote operations of the two steps, per client type
HandleOp(token) ==
    CASE token = extender -> "ExtenderConfigDownloadHandle"
      [] token = webproxy -> "WebProxySessionDownloadHandle"
      [] token = carrier  -> "CarrierConfigDownloadHandle"

DownloadOp(token) ==
    CASE token = extender -> "DownloadExtenderConfig"
      [] token = webproxy -> "DownloadWebProxyConfig"
      [] token = carrier  -> "DownloadCarrierConfig"

\* C9: pre-config makes at most the handle call and then the download call
\* of the requested type, each at most once; the download call is made only
\* after the handle call succeeded and carries the SessionID that call
\* returned together with the client id given to the handle call.
C9_DownloadFollowsHandle ==
    (cmd = "pre-config" /\ calls # <<>>)
    => /\ Len(calls) <= 2
       /\ argv.type.val \in {extender, webproxy, carrier}
       /\ calls[1].op = HandleOp(argv.type.val)
       /\ calls[1].args = <<argv.clientId.val>>
       /\ Len(calls) = 2
            => /\ calls[1].resp.ok
               /\ calls[2].op = DownloadOp(argv.type.val)
               /\ calls[2].args =
                    <<calls[1].args[1], calls[1].resp.val.SessionID, argv.name.val>>

\* an extender download that reached step 2 with the session of step 1
C9_Witness ==
    /\ cmd = "pre-config"
    /\ argv.type.val = extender
    /\ Len(calls) = 2
    /\ calls[1].resp.val.SessionID = "s2"
    /\ calls[2].args = <<"c1", "s2", "f1">>

\* C10: show-ca and show-crl pass the value of --client-id to the backend
\* call as its identifier.
C10_ClientIdReachesBackend ==
    (cmd \in {"show-ca", "show-crl"} /\ argv.clientId.set)
    => \A k \in 1..Len(calls) :
          calls[k].args[Len(calls[k].args)] = argv.clientId.val

====
